---- MODULE Spec2Model ----
(***************************************************************************)
(* Collation of dataset samples into mini-batches, as the notebook         *)
(* pytorch/1.dataloader_collate_fn.ipynb does it: the two user-defined     *)
(* collate functions custom_collate (section 1.3) and                      *)
(* custom_detection_collate (section 2.3), and the library's               *)
(* default_collate they fall back to.                                      *)
(*                                                                         *)
(* Python values are records tagged by "kind":                             *)
(*   tensor  shape (a sequence of dimensions) and data (row-major)         *)
(*   int     val                                                           *)
(*   str     val (only as the key of a dict, never taken apart)            *)
(*   dict    items, a sequence of <<key, value>> in insertion order        *)
(*   tuple   items                                                         *)
(*   list    items                                                         *)
(* and a call that ends in an exception yields                             *)
(*   raise   type (the exception class) and where (the place it is raised) *)
(***************************************************************************)
EXTENDS Integers, Sequences, FiniteSets, TLC

VARIABLES batch, called, branch, result

vars == <<batch, called, branch, result>>

----------------------------------------------------------------------------
\* Bounds of the model.

\* The longest batch handed to a collate function.
MaxBatch == 2

\* The largest number of objects of a detection target (n_objects).
MaxObjects == 2

----------------------------------------------------------------------------
\* Python values.

Tensor(shape, data) == [kind |-> "tensor", shape |-> shape, data |-> data]

PyInt(n) == [kind |-> "int", val |-> n]

PyStr(s) == [kind |-> "str", val |-> s]

PyDict(items) == [kind |-> "dict", items |-> items]

PyTuple(items) == [kind |-> "tuple", items |-> items]

PyList(items) == [kind |-> "list", items |-> items]

PyBool(b) == [kind |-> "bool", val |-> b]

Raise(type, where) == [kind |-> "raise", type |-> type, where |-> where]

NoResult == [kind |-> "none"]

\* The first exception of a sequence of outcomes evaluated left to right.
FirstRaise(outs) ==
  outs[CHOOSE i \in 1..Len(outs) :
         /\ outs[i].kind = "raise"
         /\ \A j \in 1..(i - 1) : outs[j].kind # "raise"]

AnyRaise(outs) == \E i \in 1..Len(outs) : outs[i].kind = "raise"

\* len(v) is defined for sequences, mappings and tensors of dimension >= 1.
HasLen(v) ==
  \/ v.kind \in {"tuple", "list", "dict"}
  \/ v.kind = "tensor" /\ Len(v.shape) > 0

PyLen(v) ==
  CASE v.kind \in {"tuple", "list", "dict"} -> Len(v.items)
    [] v.kind = "tensor" -> v.shape[1]

\* t[i - 1] of a tensor of dimension >= 1: the i-th slice along dimension 0.
Slice(t, i) ==
  LET sz == IF t.shape[1] = 0 THEN 0 ELSE Len(t.data) \div t.shape[1]
  IN  Tensor(Tail(t.shape), SubSeq(t.data, (i - 1) * sz + 1, i * sz))

DictHas(d, k) == \E i \in 1..Len(d.items) : d.items[i][1] = k

DictGet(d, k) == d.items[CHOOSE i \in 1..Len(d.items) : d.items[i][1] = k][2]

\* v[1]: the element at index 1 of a sequence, the value under key 1 of a
\* mapping, the second slice of a tensor.
GetItem1(v, where) ==
  CASE v.kind \in {"tuple", "list"} ->
         IF Len(v.items) >= 2 THEN v.items[2] ELSE Raise("IndexError", where)
    [] v.kind = "dict" ->
         IF DictHas(v, PyInt(1)) THEN DictGet(v, PyInt(1))
         ELSE Raise("KeyError", where)
    [] v.kind = "tensor" ->
         IF Len(v.shape) = 0 THEN Raise("IndexError", where)
         ELSE IF v.shape[1] >= 2 THEN Slice(v, 2)
         ELSE Raise("IndexError", where)
    [] v.kind = "int" -> Raise("TypeError", where)

\* What iterating over v yields: the items of a sequence, the keys of a
\* mapping, the slices of a tensor.
Iterable(v) ==
  \/ v.kind \in {"tuple", "list", "dict"}
  \/ v.kind = "tensor" /\ Len(v.shape) > 0

Iter(v) ==
  CASE v.kind \in {"tuple", "list"} -> v.items
    [] v.kind = "dict" -> [i \in 1..Len(v.items) |-> v.items[i][1]]
    [] v.kind = "tensor" -> [i \in 1..v.shape[1] |-> Slice(v, i)]

\* Unpack2 with the two names swapped ("for target, img in batch").
Unpack2_swapped(sample, where) ==
  IF ~Iterable(sample) THEN Raise("TypeError", where)
  ELSE IF Len(Iter(sample)) # 2 THEN Raise("ValueError", where)
  ELSE PyTuple(<<Iter(sample)[2], Iter(sample)[1]>>)

\* "for img, target in batch": one sample unpacked into exactly two names.
Unpack2(sample, where) ==
  IF ~Iterable(sample) THEN Raise("TypeError", where)
  ELSE IF Len(Iter(sample)) # 2 THEN Raise("ValueError", where)
  ELSE PyTuple(Iter(sample))

\* stack with the tensors laid out last to first.
stack_reversed(tensors, where) ==
  LET n == Len(tensors) IN
  IF n = 0 THEN Raise("RuntimeError", where)
  ELSE IF \E i \in 1..n : tensors[i].kind # "tensor" THEN Raise("TypeError", where)
  ELSE IF \E i \in 1..n : tensors[i].shape # tensors[1].shape
       THEN Raise("RuntimeError", where)
  ELSE LET sz == Len(tensors[1].data)
       IN  Tensor(<<n>> \o tensors[1].shape,
                  [k \in 1..(n * sz) |->
                     tensors[n - ((k - 1) \div sz)].data[((k - 1) % sz) + 1]])

\* torch.stack(tensors): a new leading dimension over equal-shaped tensors.
stack(tensors, where) ==
  LET n == Len(tensors) IN
  IF n = 0 THEN Raise("RuntimeError", where)
  ELSE IF \E i \in 1..n : tensors[i].kind # "tensor" THEN Raise("TypeError", where)
  ELSE IF \E i \in 1..n : tensors[i].shape # tensors[1].shape
       THEN Raise("RuntimeError", where)
  ELSE LET sz == Len(tensors[1].data)
       IN  Tensor(<<n>> \o tensors[1].shape,
                  [k \in 1..(n * sz) |->
                     tensors[((k - 1) \div sz) + 1].data[((k - 1) % sz) + 1]])

----------------------------------------------------------------------------
\* The library's default collation: dispatch on the type of the first
\* element of the batch, then stack field by field.

RECURSIVE default_collate(_)

\* A batch of tensors: one stacked tensor.
collate_tensor_fn(b) == stack(b.items, "default_collate")

\* collate_int_fn leaving the scalars in their list.
collate_int_fn_as_list(b) == b

\* A batch of n scalars: a 1-D tensor of the n values, in order.
collate_int_fn(b) ==
  LET n == Len(b.items) IN
  IF \A i \in 1..n : b.items[i].kind = "int"
  THEN Tensor(<<n>>, [i \in 1..n |-> b.items[i].val])
  ELSE Raise("TypeError", "default_collate")

\* collate_mapping leaving the mappings in their list.
collate_mapping_as_list(b) == b

\* A batch of mappings: ONE mapping, each key of the first sample mapped to
\* the collation of the values under that key across the samples.
collate_mapping(b) ==
  LET n == Len(b.items)
      elem == b.items[1]
      w == "default_collate"
  IN
  IF \E i \in 1..n : b.items[i].kind # "dict" THEN Raise("TypeError", w)
  ELSE IF \E i \in 1..n : \E j \in 1..Len(elem.items) :
            ~DictHas(b.items[i], elem.items[j][1])
       THEN Raise("KeyError", w)
  ELSE
  LET vals == [j \in 1..Len(elem.items) |->
                 default_collate(PyList(
                   [i \in 1..n |-> DictGet(b.items[i], elem.items[j][1])]))]
  IN  IF AnyRaise(vals) THEN FirstRaise(vals)
      ELSE PyDict([j \in 1..Len(elem.items) |-> <<elem.items[j][1], vals[j]>>])

\* A batch of sequences of one length: the sequence of the collated
\* columns ("tuples -> tuple of stacked fields").
collate_sequence(b) ==
  LET n == Len(b.items)
      elem == b.items[1]
      w == "default_collate"
  IN
  IF \E i \in 1..n : ~HasLen(b.items[i]) THEN Raise("TypeError", w)
  ELSE IF \E i \in 1..n : PyLen(b.items[i]) # PyLen(elem)
       THEN Raise("RuntimeError", w)
  ELSE
  LET cols == [j \in 1..Len(elem.items) |->
                 default_collate(PyList(
                   [i \in 1..n |-> Iter(b.items[i])[j]]))]
  IN  IF AnyRaise(cols) THEN FirstRaise(cols)
      ELSE IF elem.kind = "tuple" THEN PyTuple(cols) ELSE PyList(cols)

default_collate(b) ==
  IF Len(b.items) = 0 THEN Raise("IndexError", "default_collate")
  ELSE
  LET elem == b.items[1] IN
  CASE elem.kind = "tensor" -> collate_tensor_fn(b)
    [] elem.kind = "int" -> collate_int_fn(b)
    [] elem.kind = "str" -> b
    [] elem.kind = "dict" -> collate_mapping(b)
    [] elem.kind \in {"tuple", "list"} -> collate_sequence(b)

----------------------------------------------------------------------------
\* The collate functions of the notebook.  Each yields the branch it took
\* ("custom", "default", or "none" when the condition itself raised) and
\* the value returned or the exception raised.

\* condition testing len(batch) == 2 in place of len(batch[0]) == 2.
condition_len_of_batch(b) ==
  LET w == "condition" IN
  IF b.kind # "list" THEN PyBool(FALSE)
  ELSE IF Len(b.items) # 2 THEN PyBool(FALSE)
  ELSE LET second == GetItem1(b.items[1], w)
       IN  IF second.kind = "raise" THEN second
           ELSE PyBool(second.kind = "dict")

\* condition with a guard "len(batch) > 0 and" before batch[0] is read.
condition_guarded(b) ==
  LET w == "condition" IN
  IF b.kind # "list" THEN PyBool(FALSE)
  ELSE IF Len(b.items) = 0 THEN PyBool(FALSE)
  ELSE IF ~HasLen(b.items[1]) THEN Raise("TypeError", w)
  ELSE IF PyLen(b.items[1]) # 2 THEN PyBool(FALSE)
  ELSE LET second == GetItem1(b.items[1], w)
       IN  IF second.kind = "raise" THEN second
           ELSE PyBool(second.kind = "dict")

\* isinstance(batch, list) and len(batch[0]) == 2
\*   and isinstance(batch[0][1], dict), evaluated left to right.
condition(b) ==
  LET w == "condition" IN
  IF b.kind # "list" THEN PyBool(FALSE)
  ELSE IF Len(b.items) = 0 THEN Raise("IndexError", w)
  ELSE IF ~HasLen(b.items[1]) THEN Raise("TypeError", w)
  ELSE IF PyLen(b.items[1]) # 2 THEN PyBool(FALSE)
  ELSE LET second == GetItem1(b.items[1], w)
       IN  IF second.kind = "raise" THEN second
           ELSE PyBool(second.kind = "dict")

Outcome(br, value) == [branch |-> br, value |-> value]

\* custom_collate without its custom branch.
custom_collate_merged(b) == Outcome("default", default_collate(b))

\* custom_collate leaving the inputs in a list, as section 2.3 does.
custom_collate_unstacked(b) ==
  LET c == condition(b) IN
  IF c.kind = "raise" THEN Outcome("none", c)
  ELSE IF c.val THEN
    LET n == Len(b.items)
        pairs == [i \in 1..n |-> Unpack2(b.items[i], "comprehension")]
    IN  IF AnyRaise(pairs) THEN Outcome("custom", FirstRaise(pairs))
        ELSE
        LET imgs == PyList([i \in 1..n |-> pairs[i].items[1]])
            targets == PyList([i \in 1..n |-> pairs[i].items[2]])
        IN  Outcome("custom", PyTuple(<<imgs, targets>>))
  ELSE Outcome("default", default_collate(b))

\* Section 1.3: inputs stacked, targets listed.
custom_collate(b) ==
  LET c == condition(b) IN
  IF c.kind = "raise" THEN Outcome("none", c)
  ELSE IF c.val THEN
    LET n == Len(b.items)
        pairs == [i \in 1..n |-> Unpack2(b.items[i], "comprehension")]
    IN  IF AnyRaise(pairs) THEN Outcome("custom", FirstRaise(pairs))
        ELSE
        LET imgs == stack([i \in 1..n |-> pairs[i].items[1]], "torch.stack")
            targets == PyList([i \in 1..n |-> pairs[i].items[2]])
        IN  IF imgs.kind = "raise" THEN Outcome("custom", imgs)
            ELSE Outcome("custom", PyTuple(<<imgs, targets>>))
  ELSE Outcome("default", default_collate(b))

\* custom_detection_collate repeating the first sample's target.
custom_detection_collate_first_target(b) ==
  LET c == condition(b) IN
  IF c.kind = "raise" THEN Outcome("none", c)
  ELSE IF c.val THEN
    LET n == Len(b.items)
        pairs == [i \in 1..n |-> Unpack2(b.items[i], "comprehension")]
    IN  IF AnyRaise(pairs) THEN Outcome("custom", FirstRaise(pairs))
        ELSE
        LET imgs == PyList([i \in 1..n |-> pairs[i].items[1]])
            targets == PyList([i \in 1..n |-> pairs[1].items[2]])
        IN  Outcome("custom", PyTuple(<<imgs, targets>>))
  ELSE Outcome("default", default_collate(b))

\* Section 2.3: inputs listed, targets listed.
custom_detection_collate(b) ==
  LET c == condition(b) IN
  IF c.kind = "raise" THEN Outcome("none", c)
  ELSE IF c.val THEN
    LET n == Len(b.items)
        pairs == [i \in 1..n |-> Unpack2(b.items[i], "comprehension")]
    IN  IF AnyRaise(pairs) THEN Outcome("custom", FirstRaise(pairs))
        ELSE
        LET imgs == PyList([i \in 1..n |-> pairs[i].items[1]])
            targets == PyList([i \in 1..n |-> pairs[i].items[2]])
        IN  Outcome("custom", PyTuple(<<imgs, targets>>))
  ELSE Outcome("default", default_collate(b))

----------------------------------------------------------------------------
\* The inputs: the samples the notebook's datasets yield, with the 3x2x2
\* images reduced to two pixels, and the other values a collate function
\* can be handed.

\* torch.rand(3, 2, 2), reduced; the third image has another shape.
Imgs ==
  { Tensor(<<1, 1, 2>>, <<0, 1>>),
    Tensor(<<1, 1, 2>>, <<1, 0>>),
    Tensor(<<1, 2, 1>>, <<0, 1>>) }

\* TensorIntDataset.targets
IntTargets == { PyInt(3), PyInt(5) }

\* TensorDictDataset.targets
DictTargets ==
  { PyDict(<< <<PyStr("label"), PyInt(1)>>, <<PyStr("other_value"), PyInt(2)>> >>),
    PyDict(<< <<PyStr("label"), PyInt(5)>>, <<PyStr("other_value"), PyInt(3)>> >>) }

\* rand_target() with n_objects = n: n boxes of 4 coordinates, n labels.
rand_target(n) ==
  PyDict(<< <<PyStr("boxes"), Tensor(<<n, 4>>, [k \in 1..(4 * n) |-> k])>>,
            <<PyStr("labels"), Tensor(<<n>>, [k \in 1..n |-> 10 * n + k])>> >>)

DetectionTargets == { rand_target(n) : n \in 1..MaxObjects }

\* Dataset.__getitem__: (self.imgs[idx], self.targets[idx])
TensorIntSamples == { PyTuple(<<img, t>>) : img \in Imgs, t \in IntTargets }

TensorDictSamples == { PyTuple(<<img, t>>) : img \in Imgs, t \in DictTargets }

DetectionSamples == { PyTuple(<<img, t>>) : img \in Imgs, t \in DetectionTargets }

\* Samples no dataset of the notebook yields: bare scalars, bare mappings
\* (of two keys, of one key, keyed by 0 and 1), bare tensors (of length 1,
\* of length 2, of dimension 0), a two-element list and a three-element
\* tuple.
OtherSamples ==
  LET img == Tensor(<<1, 1, 2>>, <<0, 1>>)
      d == rand_target(1)
  IN  IntTargets
      \cup { PyDict(<< <<PyStr("label"), PyInt(1)>>, <<PyStr("other_value"), PyInt(2)>> >>),
             PyDict(<< <<PyStr("label"), PyInt(1)>> >>),
             PyDict(<< <<PyStr("label"), PyInt(5)>> >>),
             PyDict(<< <<PyInt(0), img>>, <<PyInt(1), d>> >>) }
      \cup { img, Tensor(<<2>>, <<0, 1>>), Tensor(<<>>, <<7>>) }
      \cup { PyList(<<img, d>>), PyTuple(<<img, d, PyInt(3)>>) }

Samples == TensorIntSamples \cup TensorDictSamples \cup DetectionSamples \cup OtherSamples

SeqsUpTo(S, n) == UNION { [1..k -> S] : k \in 0..n }

\* The batches: every list of at most MaxBatch samples, and (not a list) a
\* tuple of two samples.
Batches ==
  { PyList(items) : items \in SeqsUpTo(Samples, MaxBatch) }
  \cup { PyTuple(<<s, s>>) : s \in TensorDictSamples }

----------------------------------------------------------------------------
\* The state machine: a batch is chosen, then one collate function is
\* applied to it.

Init ==
  /\ batch \in Batches
  /\ called = "none"
  /\ branch = "unset"
  /\ result = NoResult

CallCustomCollate ==
  /\ called = "none"
  /\ LET o == custom_collate(batch)
     IN  /\ branch' = o.branch
         /\ result' = o.value
  /\ called' = "custom_collate"
  /\ UNCHANGED batch

CallCustomDetectionCollate ==
  /\ called = "none"
  /\ LET o == custom_detection_collate(batch)
     IN  /\ branch' = o.branch
         /\ result' = o.value
  /\ called' = "custom_detection_collate"
  /\ UNCHANGED batch

CallDefaultCollate ==
  /\ called = "none"
  /\ branch' = "default"
  /\ result' = default_collate(batch)
  /\ called' = "default_collate"
  /\ UNCHANGED batch

Next ==
  \/ CallCustomCollate
  \/ CallCustomDetectionCollate
  \/ CallDefaultCollate

Spec == Init /\ [][Next]_vars

----------------------------------------------------------------------------
\* Vocabulary of the properties.

Customs == {"custom_collate", "custom_detection_collate"}

\* A sample (input, mapping): a 2-element tuple of a tensor and a dict.
IsInputMappingSample(s) ==
  /\ s.kind = "tuple"
  /\ Len(s.items) = 2
  /\ s.items[1].kind = "tensor"
  /\ s.items[2].kind = "dict"

\* A sample (input, scalar target).
IsInputScalarSample(s) ==
  /\ s.kind = "tuple"
  /\ Len(s.items) = 2
  /\ s.items[1].kind = "tensor"
  /\ s.items[2].kind = "int"

\* A non-empty list batch of (input, mapping) samples.
IsInputMappingBatch(b) ==
  /\ b.kind = "list"
  /\ Len(b.items) > 0
  /\ \A i \in 1..Len(b.items) : IsInputMappingSample(b.items[i])

\* A non-empty batch of (input, scalar target) samples.
IsInputScalarBatch(b) ==
  /\ Len(b.items) > 0
  /\ \A i \in 1..Len(b.items) : IsInputScalarSample(b.items[i])

InputOf(b, i) == b.items[i].items[1]

TargetOf(b, i) == b.items[i].items[2]

SameInputShapes(b) ==
  \A i \in 1..Len(b.items) : InputOf(b, i).shape = InputOf(b, 1).shape

KeysOf(d) == { d.items[k][1] : k \in 1..Len(d.items) }

\* The shape of a mapping's value: a scalar has the empty shape.
ValueShape(v) == IF v.kind = "tensor" THEN v.shape ELSE <<>>

\* A scalar seen as a tensor of dimension 0.
AsTensor(v) == IF v.kind = "int" THEN Tensor(<<>>, <<v.val>>) ELSE v

SameKeys(b) ==
  \A i \in 1..Len(b.items) : KeysOf(TargetOf(b, i)) = KeysOf(TargetOf(b, 1))

\* The mappings share their keys and, key by key, the shape of the value.
UniformMappings(b) ==
  /\ SameKeys(b)
  /\ \A i \in 1..Len(b.items) : \A k \in KeysOf(TargetOf(b, 1)) :
       /\ DictGet(TargetOf(b, i), k).kind = DictGet(TargetOf(b, 1), k).kind
       /\ ValueShape(DictGet(TargetOf(b, i), k)) = ValueShape(DictGet(TargetOf(b, 1), k))

\* The mappings share their keys and some field differs in length.
FieldLengthsDiffer(b) ==
  /\ SameKeys(b)
  /\ \E i \in 1..Len(b.items) : \E k \in KeysOf(TargetOf(b, 1)) :
       ValueShape(DictGet(TargetOf(b, i), k)) # ValueShape(DictGet(TargetOf(b, 1), k))

\* The i-th element of a collated container: a slice of a stacked tensor,
\* an item of a list.
ElementAt(c, i) == IF c.kind = "tensor" THEN Slice(c, i) ELSE c.items[i]

IsPair(r) == r.kind = "tuple" /\ Len(r.items) = 2

\* targets is the plain list of the batch's mappings, in order.
TargetsListed(targets, b) ==
  /\ targets.kind = "list"
  /\ Len(targets.items) = Len(b.items)
  /\ \A i \in 1..Len(b.items) : targets.items[i] = TargetOf(b, i)

\* imgs is the plain list of the batch's inputs, in order.
InputsListed(imgs, b) ==
  /\ imgs.kind = "list"
  /\ Len(imgs.items) = Len(b.items)
  /\ \A i \in 1..Len(b.items) : imgs.items[i] = InputOf(b, i)

\* imgs is one tensor of leading dimension the batch size whose i-th slice
\* is the i-th input.
InputsStacked(imgs, b) ==
  /\ imgs.kind = "tensor"
  /\ imgs.shape = <<Len(b.items)>> \o InputOf(b, 1).shape
  /\ \A i \in 1..Len(b.items) : Slice(imgs, i) = InputOf(b, i)

----------------------------------------------------------------------------
\* C1. On every non-empty list batch of (input, mapping) samples, also when
\* the mappings' fields differ in length from sample to sample,
\* custom_detection_collate returns without raising the pair
\* (imgs, targets) of two lists of the batch's length, imgs[i] the input and
\* targets[i] the unmodified mapping of batch[i].
C1_DetectionCollateListsSamples ==
  (called = "custom_detection_collate" /\ IsInputMappingBatch(batch)) =>
     /\ IsPair(result)
     /\ InputsListed(result.items[1], batch)
     /\ TargetsListed(result.items[2], batch)

C1_Witness ==
  /\ called = "custom_detection_collate"
  /\ IsInputMappingBatch(batch)
  /\ Len(batch.items) >= 2
  /\ FieldLengthsDiffer(batch)
  /\ IsPair(result)

\* C2. On every non-empty list batch of (input, mapping) samples whose
\* inputs share one shape, custom_collate returns the pair (imgs, targets):
\* imgs one stacked tensor of leading dimension the batch size whose i-th
\* slice is the input of batch[i], targets the plain list of the mappings,
\* never one merged mapping.
C2_CustomCollateStacksInputsListsTargets ==
  (called = "custom_collate" /\ IsInputMappingBatch(batch) /\ SameInputShapes(batch)) =>
     /\ IsPair(result)
     /\ InputsStacked(result.items[1], batch)
     /\ result.items[2].kind # "dict"
     /\ TargetsListed(result.items[2], batch)

C2_Witness ==
  /\ called = "custom_collate"
  /\ IsInputMappingBatch(batch)
  /\ SameInputShapes(batch)
  /\ Len(batch.items) >= 2
  /\ InputOf(batch, 1) # InputOf(batch, 2)
  /\ TargetOf(batch, 1) # TargetOf(batch, 2)
  /\ IsPair(result)

\* C3 as stated: the custom branch of either function is taken exactly when
\* the batch (a list) is non-empty, each of its samples is a 2-element
\* tuple, and the second element of the first sample is a mapping.
C3_BranchIffEverySampleIsPair ==
  (called \in Customs /\ batch.kind = "list") =>
     (branch = "custom" <=>
        /\ Len(batch.items) > 0
        /\ \A i \in 1..Len(batch.items) :
             batch.items[i].kind = "tuple" /\ Len(batch.items[i].items) = 2
        /\ batch.items[1].items[2].kind = "dict")

\* The first sample has length 2 and its element at index (or under key) 1
\* is a mapping.
FirstHasMappingAtOne(b) ==
  LET first == b.items[1] IN
  \/ /\ first.kind \in {"tuple", "list"}
     /\ Len(first.items) = 2
     /\ first.items[2].kind = "dict"
  \/ /\ first.kind = "dict"
     /\ Len(first.items) = 2
     /\ \E k \in 1..2 : first.items[k][1] = PyInt(1) /\ first.items[k][2].kind = "dict"

\* The condition cannot be evaluated: no first sample, a first sample
\* without a length, or one of length 2 without an element 1.
FirstCannotBeInspected(b) ==
  \/ Len(b.items) = 0
  \/ b.items[1].kind = "int"
  \/ b.items[1].kind = "tensor" /\ b.items[1].shape = <<>>
  \/ /\ b.items[1].kind = "dict"
     /\ Len(b.items[1].items) = 2
     /\ \A k \in 1..2 : b.items[1].items[k][1] # PyInt(1)

\* C3, amended: the custom branch of either function is taken exactly when
\* the batch is a list, its first sample has length 2 and the first
\* sample's element 1 is a mapping; the other samples are not inspected and
\* the first need not be a tuple.  Neither branch is taken (the condition
\* raises) exactly when the batch is a list whose first sample cannot be
\* inspected.
C3_BranchIffFirstSampleMatches ==
  called \in Customs =>
     /\ branch = "custom" <=>
          (batch.kind = "list" /\ Len(batch.items) > 0 /\ FirstHasMappingAtOne(batch))
     /\ branch = "none" <=>
          (batch.kind = "list" /\ FirstCannotBeInspected(batch))
     /\ branch \in {"custom", "default", "none"}

\* The custom branch taken on a batch whose second sample is no pair.
C3_Witness ==
  /\ called \in Customs
  /\ branch = "custom"
  /\ Len(batch.items) >= 2
  /\ \E i \in 2..Len(batch.items) :
       ~(batch.items[i].kind = "tuple" /\ Len(batch.items[i].items) = 2)

\* Two outcomes a caller cannot tell apart: the same value, or an exception
\* of the same class.
SameOutcome(a, b) ==
  \/ a = b
  \/ a.kind = "raise" /\ b.kind = "raise" /\ a.type = b.type

\* C4. On every batch for which the custom branch is not taken (samples
\* paired with scalar targets, samples that are mappings, bare scalars),
\* custom_collate and custom_detection_collate return exactly what
\* default_collate returns for the same batch.
C4_FallbackEqualsDefaultCollate ==
  (called \in Customs /\ branch # "custom") =>
     SameOutcome(result, default_collate(batch))

\* C10. On an empty list batch both custom functions end in the error
\* raised while the branch condition reads the first sample: neither
\* returns a collated batch, neither delegates to default_collate.
C10_EmptyBatchRaisesInCondition ==
  (called \in Customs /\ batch = PyList(<<>>)) =>
     /\ result = Raise("IndexError", "condition")
     /\ branch = "none"

C10_Witness ==
  /\ called \in Customs
  /\ batch = PyList(<<>>)
  /\ result.kind = "raise"

\* The collated targets are ONE mapping with the keys of the samples'
\* mappings, each key mapped to the stacked tensor whose i-th entry is the
\* value under that key in the mapping of batch[i].
TargetsMerged(targets, b) ==
  /\ targets.kind = "dict"
  /\ KeysOf(targets) = KeysOf(TargetOf(b, 1))
  /\ Len(targets.items) = Len(TargetOf(b, 1).items)
  /\ \A k \in KeysOf(targets) :
       /\ DictGet(targets, k).kind = "tensor"
       /\ DictGet(targets, k).shape =
            <<Len(b.items)>> \o ValueShape(DictGet(TargetOf(b, 1), k))
       /\ \A i \in 1..Len(b.items) :
            Slice(DictGet(targets, k), i) = AsTensor(DictGet(TargetOf(b, i), k))

\* C5 as stated: on every batch of (input, mapping) samples whose mappings
\* share their keys and the shape of the value under each key,
\* default_collate returns one mapping (not a list of mappings) of the
\* same keys, each mapped to the stacked values of the samples.
C5_DefaultCollateMergesMappings ==
  (called = "default_collate" /\ IsInputMappingBatch(batch) /\ UniformMappings(batch)) =>
     /\ IsPair(result)
     /\ TargetsMerged(result.items[2], batch)

\* C5, amended: the same, on the batches whose inputs also share one
\* shape (default_collate stacks the inputs before the mappings and raises
\* when their shapes differ).
C5_DefaultCollateMergesMappingsOfStackableInputs ==
  (/\ called = "default_collate"
   /\ IsInputMappingBatch(batch)
   /\ UniformMappings(batch)
   /\ SameInputShapes(batch)) =>
     /\ IsPair(result)
     /\ InputsStacked(result.items[1], batch)
     /\ TargetsMerged(result.items[2], batch)

C5_Witness ==
  /\ called = "default_collate"
  /\ IsInputMappingBatch(batch)
  /\ UniformMappings(batch)
  /\ SameInputShapes(batch)
  /\ Len(batch.items) >= 2
  /\ TargetOf(batch, 1) # TargetOf(batch, 2)
  /\ IsPair(result)

\* C6. On every batch of (input, scalar target) samples with same-shaped
\* inputs, default_collate returns the stacked inputs, of shape (batch
\* size, ...sample shape) with the input of batch[i] as i-th slice, and the
\* 1-D tensor of length the batch size whose i-th entry is the scalar
\* target of batch[i].
C6_DefaultCollateStacksInputsAndScalars ==
  (called = "default_collate" /\ IsInputScalarBatch(batch) /\ SameInputShapes(batch)) =>
     /\ IsPair(result)
     /\ InputsStacked(result.items[1], batch)
     /\ result.items[2].kind = "tensor"
     /\ result.items[2].shape = <<Len(batch.items)>>
     /\ \A i \in 1..Len(batch.items) :
          result.items[2].data[i] = TargetOf(batch, i).val

C6_Witness ==
  /\ called = "default_collate"
  /\ IsInputScalarBatch(batch)
  /\ SameInputShapes(batch)
  /\ Len(batch.items) >= 2
  /\ InputOf(batch, 1) # InputOf(batch, 2)
  /\ TargetOf(batch, 1) # TargetOf(batch, 2)
  /\ IsPair(result)

\* The batch of size 1 holding the i-th sample of b.
Single(b, i) == PyList(<<b.items[i]>>)

\* What the function that was called returns for batch b.
ValueOfCalled(b) ==
  IF called = "custom_collate" THEN custom_collate(b).value
  ELSE custom_detection_collate(b).value

\* The result agrees, position by position, with what the same function
\* returns for each sample alone.
ConsistentWithSingles ==
  \A i \in 1..Len(batch.items) :
    LET single == ValueOfCalled(Single(batch, i)) IN
    /\ IsPair(single)
    /\ ElementAt(single.items[1], 1) = ElementAt(result.items[1], i)
    /\ ElementAt(single.items[2], 1) = ElementAt(result.items[2], i)

\* A custom function was applied to a non-empty list batch of (input,
\* mapping) samples (custom_collate: of same-shaped inputs).
C7_Case ==
  /\ called \in Customs
  /\ IsInputMappingBatch(batch)
  /\ called = "custom_collate" => SameInputShapes(batch)

\* C7 as stated: a custom function applied to a batch of size 1 holding one
\* (input, mapping) sample returns a single-element list of inputs and a
\* single-element list of targets, each equal to what the function returns
\* at that sample's position in a multi-element batch.
C7_SingleSampleGivesTwoLists ==
  C7_Case =>
     /\ IsPair(result)
     /\ Len(batch.items) = 1 =>
          /\ result.items[1] = PyList(<<InputOf(batch, 1)>>)
          /\ result.items[2] = PyList(<<TargetOf(batch, 1)>>)
     /\ ConsistentWithSingles

\* C7, amended: custom_detection_collate applied to a batch of size 1
\* returns a single-element list of inputs and a single-element list of
\* targets; custom_collate returns a stacked tensor of leading dimension 1
\* whose only slice is the input, and a single-element list of targets.
\* For either function (custom_collate: on same-shaped inputs) the entry at
\* a sample's position in a multi-element batch equals the entry returned
\* for that sample alone.
C7_SingleSampleConsistentWithBatch ==
  C7_Case =>
     /\ IsPair(result)
     /\ Len(batch.items) = 1 =>
          /\ called = "custom_detection_collate" =>
               result.items[1] = PyList(<<InputOf(batch, 1)>>)
          /\ called = "custom_collate" =>
               /\ result.items[1].kind = "tensor"
               /\ result.items[1].shape = <<1>> \o InputOf(batch, 1).shape
               /\ Slice(result.items[1], 1) = InputOf(batch, 1)
          /\ result.items[2] = PyList(<<TargetOf(batch, 1)>>)
     /\ ConsistentWithSingles

C7_Witness ==
  /\ C7_Case
  /\ Len(batch.items) >= 2
  /\ batch.items[1] # batch.items[2]
  /\ IsPair(result)

\* C8 as stated: the only error a custom function can end in is the
\* shape-mismatch failure default_collate raises; default_collate does
\* raise on a batch of mappings whose per-sample fields differ in length;
\* on a batch of (input, mapping) samples the custom functions never reach
\* default_collate and never fail.
C8_OnlyDefaultCollateShapeMismatch ==
  /\ (called \in Customs /\ result.kind = "raise") =>
        result = Raise("RuntimeError", "default_collate")
  /\ (called = "default_collate" /\ IsInputMappingBatch(batch) /\ FieldLengthsDiffer(batch)) =>
        result.kind = "raise"
  /\ (called \in Customs /\ IsInputMappingBatch(batch)) =>
        branch = "custom" /\ result.kind # "raise"

\* C8, amended: a custom function can end in an error of default_collate
\* when it delegates, in an error raised while its branch condition reads
\* the first sample, and in an error raised in its custom branch
\* (unpacking a sample that is no pair; for custom_collate, stacking inputs
\* that are not same-shaped tensors).  default_collate does raise on a
\* batch of mappings whose per-sample fields differ in length.  On a
\* non-empty list batch of (input, mapping) samples the custom functions
\* never reach default_collate; custom_detection_collate never fails on
\* one, and custom_collate fails on one exactly when its inputs differ in
\* shape.
C8_ErrorsOfCustomCollation ==
  /\ (called \in Customs /\ result.kind = "raise") =>
        \/ branch = "default" /\ result.where = "default_collate"
        \/ branch = "none" /\ result.where = "condition"
        \/ branch = "custom" /\ result.where = "comprehension"
        \/ /\ branch = "custom"
           /\ called = "custom_collate"
           /\ result.where = "torch.stack"
  /\ (called = "default_collate" /\ IsInputMappingBatch(batch) /\ FieldLengthsDiffer(batch)) =>
        result = Raise("RuntimeError", "default_collate")
  /\ (called \in Customs /\ IsInputMappingBatch(batch)) =>
        /\ branch = "custom"
        /\ result.kind = "raise" <=>
             (called = "custom_collate" /\ ~SameInputShapes(batch))
        /\ result.kind = "raise" => result = Raise("RuntimeError", "torch.stack")

\* custom_collate failing on a batch of (input, mapping) samples.
C8_Witness ==
  /\ called = "custom_collate"
  /\ IsInputMappingBatch(batch)
  /\ ~SameInputShapes(batch)
  /\ branch = "custom"
  /\ result.kind = "raise"

\* C9. On every non-empty list batch of (input, mapping) samples with
\* same-shaped inputs, custom_collate and custom_detection_collate return
\* the same targets list, and their inputs differ only in the container:
\* the i-th slice of custom_collate's stacked tensor is the i-th element of
\* custom_detection_collate's list.
C9_CustomCollatesAgree ==
  (called \in Customs /\ IsInputMappingBatch(batch) /\ SameInputShapes(batch)) =>
     LET stacked == custom_collate(batch).value
         listed == custom_detection_collate(batch).value
     IN  /\ result = IF called = "custom_collate" THEN stacked ELSE listed
         /\ IsPair(stacked)
         /\ IsPair(listed)
         /\ stacked.items[2] = listed.items[2]
         /\ stacked.items[2].kind = "list"
         /\ stacked.items[1].kind = "tensor"
         /\ listed.items[1].kind = "list"
         /\ stacked.items[1].shape[1] = Len(listed.items[1].items)
         /\ \A i \in 1..Len(batch.items) :
              Slice(stacked.items[1], i) = listed.items[1].items[i]

C9_Witness ==
  /\ called = "custom_collate"
  /\ IsInputMappingBatch(batch)
  /\ SameInputShapes(batch)
  /\ Len(batch.items) >= 2
  /\ InputOf(batch, 1) # InputOf(batch, 2)
  /\ TargetOf(batch, 1) # TargetOf(batch, 2)
  /\ IsPair(result)
  /\ result.items[2] = custom_detection_collate(batch).value.items[2]

====
